---- MODULE Spec2Model ----
(***************************************************************************)
(* Model of the ERA5/CAMS download script: chunk_dates, the request        *)
(* lifecycle step _download_era5_file, the orchestrator download_era5 and  *)
(* the retry loop of __main__ (src/download_era5.py), with the helpers of  *)
(* src/ls2d_funcs.py they call.                                            *)
(***************************************************************************)
EXTENDS Integers, Sequences, FiniteSets, TLC

VARIABLES
    settings,           \* the settings dictionary handed to download_era5
    exit_when_waiting,  \* download_era5's second argument
    files,              \* regular files on disk, as [stem, ext] names
    requests,           \* pickled request of each handle file -> state at the remote,
                        \* "unreadable" for a handle file that holds no request
    pc,                 \* position of the process
    download_queue,     \* download_era5: the queue of settings_tmp
    idx,                \* download_era5: position of the for loop in the queue
    finished,           \* download_era5: local finished
    any_dl,             \* download_era5: local any_dl
    found,              \* download_era5: files reported 'Found ... local' in this pass
    log,                \* one record per _download_era5_file call of this pass
    m_finished,         \* __main__: finished
    sleeptime,          \* __main__: sleeptime (any_dl of __main__ is read only
                        \* where it is assigned, from the returned any_dl)
    deleted,            \* output files of the chunks in the state Deleted: the
                        \* expired handle was deleted in this run and no request
                        \* has been submitted for the chunk since
    cd_dates,           \* chunk_dates harness: argument dates
    cd_size,            \* chunk_dates harness: argument chunk_size
    cd_out,             \* chunk_dates harness: returned chunks
    cd_done,            \* chunk_dates harness: the call has returned
    an_start,           \* get_required_analysis harness: start
    an_end,             \* get_required_analysis harness: end
    an_freq,            \* get_required_analysis harness: freq
    an_round,           \* get_required_analysis harness: called as download_era5
                        \* calls it, on times rounded by lower_to_hour
    an_out,             \* get_required_analysis harness: returned dates
    an_done             \* get_required_analysis harness: the call has returned

vars == <<settings, exit_when_waiting, files, requests, pc, download_queue, idx,
          finished, any_dl, found, log, m_finished, sleeptime, deleted,
          cd_dates, cd_size, cd_out, cd_done,
          an_start, an_end, an_freq, an_round, an_out, an_done>>

mainvars == <<settings, exit_when_waiting, files, requests, pc, download_queue, idx,
              finished, any_dl, found, log, m_finished, sleeptime, deleted>>

cdvars == <<cd_dates, cd_size, cd_out, cd_done>>

anvars == <<an_start, an_end, an_freq, an_round, an_out, an_done>>

-----------------------------------------------------------------------------
(* Bounds of the model.                                                    *)

\* longest date list handed to chunk_dates by the harness
MaxLen == 4
\* largest chunk_size tried by the harness besides the script's own value
MaxSize == 3
\* longest period of a modelled run, in days
MaxDays == 2
\* largest freq handed to get_required_analysis by its harness
MaxFreq == 3

-----------------------------------------------------------------------------
(* datetime: the proleptic Gregorian calendar, dates as [year, month, day] *)

BaseYear == 2010

IsLeap(y) == (y % 4 = 0 /\ y % 100 # 0) \/ y % 400 = 0

DaysInMonth(y, m) ==
    IF m = 2 THEN (IF IsLeap(y) THEN 29 ELSE 28)
    ELSE IF m \in {4, 6, 9, 11} THEN 30 ELSE 31

DaysInYear(y) == IF IsLeap(y) THEN 366 ELSE 365

RECURSIVE DaysBeforeYear(_)
DaysBeforeYear(y) ==
    IF y <= BaseYear THEN 0 ELSE DaysBeforeYear(y - 1) + DaysInYear(y - 1)

RECURSIVE DaysBeforeMonth(_, _)
DaysBeforeMonth(y, m) ==
    IF m <= 1 THEN 0 ELSE DaysBeforeMonth(y, m - 1) + DaysInMonth(y, m - 1)

\* days since BaseYear-01-01
toordinal(d) == DaysBeforeYear(d.year) + DaysBeforeMonth(d.year, d.month) + d.day - 1

RECURSIVE MonthWalk(_, _, _)
MonthWalk(y, m, n) ==
    IF n >= DaysInMonth(y, m) THEN MonthWalk(y, m + 1, n - DaysInMonth(y, m))
    ELSE [year |-> y, month |-> m, day |-> n + 1]

RECURSIVE YearWalk(_, _)
YearWalk(y, n) ==
    IF n >= DaysInYear(y) THEN YearWalk(y + 1, n - DaysInYear(y))
    ELSE MonthWalk(y, 1, n)

fromordinal(n) == YearWalk(BaseYear, n)

Date(y, m, d) == [year |-> y, month |-> m, day |-> d]

DateTime(y, m, d, h, mi) ==
    [year |-> y, month |-> m, day |-> d, hour |-> h, minute |-> mi]

\* date + n * one_day
AddDays(d, n) == fromordinal(toordinal(d) + n)

-----------------------------------------------------------------------------
(* chunk_dates                                                             *)

same_month_ignored(d, last) == TRUE

same_month(d, last) == d.month = last.month

chunk_size_reached(chunk, chunk_size) == Len(chunk) >= chunk_size

RECURSIVE chunk_loop(_, _, _, _, _)
chunk_loop(dates, i, chunk_size, chunks, chunk) ==
    IF i > Len(dates)
    THEN (IF chunk # <<>> THEN Append(chunks, chunk) ELSE chunks)
    ELSE LET d == dates[i] IN
         IF chunk = <<>>
         THEN chunk_loop(dates, i + 1, chunk_size, chunks, <<d>>)
         ELSE IF (~same_month(d, chunk[Len(chunk)]))
                    \/ chunk_size_reached(chunk, chunk_size)
              THEN chunk_loop(dates, i + 1, chunk_size, Append(chunks, chunk), <<d>>)
              ELSE chunk_loop(dates, i + 1, chunk_size, chunks, Append(chunk, d))

chunk_dates(dates, chunk_size) == chunk_loop(dates, 1, chunk_size, <<>>, <<>>)

-----------------------------------------------------------------------------
(* ls2d_funcs: lower_to_hour, get_required_analysis, era5_file_path        *)

lower_to_hour(time) == DateTime(time.year, time.month, time.day, time.hour, 0)

\* default of get_required_analysis's freq argument
freq_default == 1

hour_truncated(end) == 60 * end.hour

\* hour = end.hour + end.minute / 60., in minutes
hour_of_day(end) == 60 * end.hour + end.minute

after_last_analysis_inclusive(end, freq) == hour_of_day(end) >= 60 * (24 - freq)

\* hour > 24 - freq
after_last_analysis(end, freq) == hour_of_day(end) > 60 * (24 - freq)

get_required_analysis(start, end, freq) ==
    LET first_analysis == Date(start.year, start.month, start.day)
        end_day        == Date(end.year, end.month, end.day)
        last_analysis  == IF after_last_analysis(end, freq)
                          THEN AddDays(end_day, 1) ELSE end_day
        n == toordinal(last_analysis) - toordinal(first_analysis) + 1
    IN  [i \in 1..n |-> AddDays(first_analysis, i - 1)]

era5_file_path_by_month(dates, ftype, format_ext) ==
    LET s_date  == dates[1]
        era_dir == <<s_date.year, s_date.month, 0, 0>>
    IN  [dir |-> era_dir, file |-> [dir |-> era_dir, name |-> ftype, ext |-> format_ext]]

\* path and case are the same for every file of a run and are left out of the names
era5_file_path(dates, ftype, format_ext) ==
    LET s_date  == dates[1]
        e_date  == dates[Len(dates)]
        era_dir == <<s_date.year, s_date.month, s_date.day, e_date.day>>
    IN  [dir |-> era_dir, file |-> [dir |-> era_dir, name |-> ftype, ext |-> format_ext]]

\* '{}.ext'.format(nc_file[:-len(settings['format_extension'])])
with_ext(nc_file, ext) == [nc_file EXCEPT !.ext = ext]

pickle_of(nc_file) == with_ext(nc_file, ".pickle")
out_of(nc_file)    == with_ext(nc_file, ".out")
err_of(nc_file)    == with_ext(nc_file, ".err")

\* file names patch_netcdf accepts
patchable_names ==
    {"model_an", "eac4_ml", "egg4_ml", "pressure_an",
     "surface_an", "surface_fc", "eac4_sfc", "egg4_sfc", "egg4_sl"}

\* patch_netcdf on a freshly downloaded new-format file: the files it leaves and
\* whether it returned (ok) or ended in error(...), which exits
patch_netcdf(fs, nc_file) ==
    LET backup == with_ext(nc_file, ".nc.unpatched")
        moved  == (fs \cup {backup}) \ {nc_file}
    IN  IF nc_file.ext = ".nc" /\ nc_file.name \in patchable_names
        THEN [files |-> moved \cup {nc_file}, ok |-> TRUE]
        ELSE [files |-> moved, ok |-> FALSE]

-----------------------------------------------------------------------------
(* settings                                                                *)

Kinds == {"surface_an", "pressure_an", "cams"}

BoxKeys    == {"lat_n", "lat_s", "lon_w", "lon_e"}
CenterKeys == {"central_lat", "central_lon", "area_size"}

\* chunk size of the script's own settings
ScriptChunkSize == 8

\* sleeptime = sleeptime_init = 10
sleeptime_init == 10

format_extension(format) == IF format = "netcdf" THEN ".nc" ELSE ".grib"

\* the first two branches of the bounding-box test of _download_era5_file
bounds_defined(keys) == BoxKeys \subseteq keys \/ CenterKeys \subseteq keys

bounding_box_swapped(geo) ==
    IF BoxKeys \subseteq DOMAIN geo
    THEN <<geo.lat_n, geo.lat_s, geo.lon_w, geo.lon_e>>
    ELSE IF CenterKeys \subseteq DOMAIN geo
    THEN <<geo.central_lat + geo.area_size, geo.central_lat - geo.area_size,
           geo.central_lon + geo.area_size, geo.central_lon - geo.area_size>>
    ELSE <<>>

\* lines 121-138: <<lat_n, lat_s, lon_w, lon_e>> as the call goes on with them,
\* the empty sequence when it ends in error(...)
bounding_box(geo) ==
    IF BoxKeys \subseteq DOMAIN geo
    THEN <<geo.lat_n, geo.lat_s, geo.lon_w, geo.lon_e>>
    ELSE IF CenterKeys \subseteq DOMAIN geo
    THEN <<geo.central_lat + geo.area_size, geo.central_lat - geo.area_size,
           geo.central_lon - geo.area_size, geo.central_lon + geo.area_size>>
    ELSE <<>>

-----------------------------------------------------------------------------
(* The remote service, as seen through cds_request.update()                *)

PendingStates == {"queued", "accepted", "running"}
FailedStates  == {"failed"}

\* What is kept of a request at the remote is whether it is still pending, has
\* completed or has failed; update() shows one of the states of that class.
Shown(class) == CASE class = "pending"   -> PendingStates
                  [] class = "completed" -> {"completed"}
                  [] OTHER               -> FailedStates

ClassOf(s) == IF s \in PendingStates THEN "pending"
              ELSE IF s = "completed" THEN "completed" ELSE "failed"

\* states a request of this class can be found in at a later update()
Reach(class) ==
    IF class = "pending" THEN PendingStates \cup {"completed"} \cup FailedStates
    ELSE Shown(class)

Put(rq, f, s) == [g \in DOMAIN rq \cup {f} |-> IF g = f THEN s ELSE rq[g]]
Drop(rq, f)   == [g \in DOMAIN rq \ {f} |-> rq[g]]

-----------------------------------------------------------------------------
(* _download_era5_file: one call for the queue entry download_queue[idx]   *)

InLoop == pc = "pass" /\ idx <= Len(download_queue)

Task == download_queue[idx]

nc_file_of(t) ==
    era5_file_path(t.chunk_dates, t.ftype, format_extension(settings.format)).file

\* lines 108-118: the .out and .err files are opened for writing
open_logs(fs, nc_file) ==
    IF settings.write_log THEN fs \cup {out_of(nc_file), err_of(nc_file)} ELSE fs

loads_anything(rq, pickle_file) == TRUE

\* line 149: pickle.load(f) returns the request; it raises for a handle file
\* whose content is not a pickled request
loads(rq, pickle_file) == rq[pickle_file] # "unreadable"

has_request_never(fs, pickle_file) == FALSE

\* os.path.isfile(pickle_file)
has_request(fs, pickle_file) == pickle_file \in fs

\* where the chunk of nc_file stands when a call for it starts: Deleted, without
\* a request, or with a request last seen pending, completed or failed
state_before(nc_file) ==
    IF nc_file \in deleted THEN "deleted"
    ELSE IF pickle_of(nc_file) \in DOMAIN requests THEN requests[pickle_of(nc_file)]
    ELSE "none"

\* what one call did: the bounding box it worked with, whether it found a handle
\* file, where the chunk stood before the call, the local state, the calls
\* made to the remote service, the exception met ("none" without one) and how the
\* call ended ("True" or "False" returned, "exit" for sys.exit, "raise" for an
\* exception that leaves the call)
Entry(nc_file, had, state, calls, error, ret) ==
    [nc_file |-> nc_file, had_request |-> had, state |-> state,
     calls |-> calls, error |-> error, ret |-> ret,
     box |-> bounding_box(settings.geo),
     before |-> state_before(nc_file)]

aggregate_keeps_finished(fin, dl, ret) == [finished |-> fin, any_dl |-> dl \/ ret]

aggregate_last(fin, dl, ret) == [finished |-> ret, any_dl |-> ret]

\* lines 385-388: if not _download_era5_file(req): finished = False, else any_dl = True
aggregate(fin, dl, ret) ==
    IF ~ret THEN [finished |-> FALSE, any_dl |-> dl]
    ELSE [finished |-> fin, any_dl |-> TRUE]

\* the for loop of download_era5 takes the returned value
Returns(ret) ==
    /\ pc' = "pass"
    /\ idx' = idx + 1
    /\ finished' = aggregate(finished, any_dl, ret).finished
    /\ any_dl' = aggregate(finished, any_dl, ret).any_dl

\* sys.exit() inside the call
Exits == pc' = "exited" /\ UNCHANGED <<idx, finished, any_dl>>

\* an exception nobody catches
Raises == pc' = "crashed" /\ UNCHANGED <<idx, finished, any_dl>>

Frame == UNCHANGED <<settings, exit_when_waiting, download_queue, found,
                     m_finished, sleeptime, cdvars, anvars>>

submit_new_and_wait(fs, rq, nc_file) ==
    [files |-> fs \cup {nc_file}, requests |-> rq,
     calls |-> <<"retrieve", "download">>, ret |-> TRUE]

\* lines 204-295: retrieve with wait_until_complete=False, then pickle.dump
submit_new(fs, rq, nc_file) ==
    [files |-> fs \cup {pickle_of(nc_file)},
     requests |-> Put(rq, pickle_of(nc_file), "pending"),
     calls |-> <<"retrieve">>, ret |-> FALSE]

\* lines 197-200: the three os.remove calls, the first missing file raises
remove_rejected(fs, nc_file) ==
    LET fs1 == fs \ {pickle_of(nc_file)}
        fs2 == fs1 \ {err_of(nc_file)}
        fs3 == fs2 \ {out_of(nc_file)}
    IN  IF err_of(nc_file) \notin fs1 THEN [files |-> fs1, ok |-> FALSE]
        ELSE IF out_of(nc_file) \notin fs2 THEN [files |-> fs2, ok |-> FALSE]
        ELSE [files |-> fs3, ok |-> TRUE]

\* lines 135-138: neither set of bounds is in the settings
StepConfigError ==
    LET nc == nc_file_of(Task) IN
    /\ InLoop
    /\ ~bounds_defined(DOMAIN settings.geo)
    /\ files' = open_logs(files, nc)
    /\ UNCHANGED requests
    /\ log' = Append(log, Entry(nc, has_request(files, pickle_of(nc)), "new", <<>>,
                                "ConfigError", "exit"))
    /\ Exits
    /\ Frame
    /\ UNCHANGED deleted

\* lines 204-295: no pickle, a new request is submitted
StepSubmit ==
    LET nc == nc_file_of(Task)
        r  == submit_new(open_logs(files, nc), requests, nc)
    IN
    /\ InLoop
    /\ bounds_defined(DOMAIN settings.geo)
    /\ ~has_request(files, pickle_of(nc))
    /\ files' = r.files
    /\ requests' = r.requests
    /\ log' = Append(log, Entry(nc, FALSE, "new", r.calls, "none",
                                IF r.ret THEN "True" ELSE "False"))
    /\ Returns(r.ret)
    /\ Frame
    /\ deleted' = deleted \ {nc}

\* line 149: pickle.load raises, nothing catches it
StepLoadRaises ==
    LET nc == nc_file_of(Task) IN
    /\ InLoop
    /\ bounds_defined(DOMAIN settings.geo)
    /\ has_request(files, pickle_of(nc))
    /\ ~loads(requests, pickle_of(nc))
    /\ files' = open_logs(files, nc)
    /\ UNCHANGED requests
    /\ log' = Append(log, Entry(nc, TRUE, "new", <<>>, "UnpicklingError", "raise"))
    /\ Raises
    /\ Frame
    /\ UNCHANGED deleted

\* line 152: update() raises something other than HTTPError
StepUpdateRaises ==
    LET nc == nc_file_of(Task) IN
    /\ InLoop
    /\ bounds_defined(DOMAIN settings.geo)
    /\ has_request(files, pickle_of(nc))
    /\ loads(requests, pickle_of(nc))
    /\ files' = open_logs(files, nc)
    /\ UNCHANGED requests
    /\ log' = Append(log, Entry(nc, TRUE, "new", <<"update">>,
                                "ConnectionError", "raise"))
    /\ Raises
    /\ Frame
    /\ UNCHANGED deleted

delete_expired_kept(fs, rq, nc_file) == [files |-> fs, requests |-> rq]

\* lines 158-161: os.remove(pickle_file), state = 'deleted'
delete_expired(fs, rq, nc_file) ==
    [files |-> fs \ {pickle_of(nc_file)}, requests |-> Drop(rq, pickle_of(nc_file))]

\* lines 153-161, 186-187: update() raises HTTPError, the pickle is deleted
StepExpiredDeleted ==
    LET nc == nc_file_of(Task)
        r  == delete_expired(open_logs(files, nc), requests, nc)
    IN
    /\ InLoop
    /\ bounds_defined(DOMAIN settings.geo)
    /\ has_request(files, pickle_of(nc))
    /\ loads(requests, pickle_of(nc))
    /\ settings.delete_expired_requests
    /\ files' = r.files
    /\ requests' = r.requests
    /\ log' = Append(log, Entry(nc, TRUE, "deleted", <<"update">>,
                                "HTTPError", "False"))
    /\ Returns(FALSE)
    /\ Frame
    /\ deleted' = deleted \cup {nc}

\* lines 153-156: update() raises HTTPError, error(..., exit=True)
StepExpiredExit ==
    LET nc == nc_file_of(Task) IN
    /\ InLoop
    /\ bounds_defined(DOMAIN settings.geo)
    /\ has_request(files, pickle_of(nc))
    /\ loads(requests, pickle_of(nc))
    /\ ~settings.delete_expired_requests
    /\ files' = open_logs(files, nc)
    /\ UNCHANGED requests
    /\ log' = Append(log, Entry(nc, TRUE, "new", <<"update">>,
                                "HTTPError", "exit"))
    /\ Exits
    /\ Frame
    /\ UNCHANGED deleted

not_finished_waits(fs, rq, nc_file, s) ==
    [files |-> (fs \cup {nc_file}) \ {pickle_of(nc_file)},
     requests |-> Drop(rq, pickle_of(nc_file)),
     calls |-> <<"update", "update", "download">>, ret |-> TRUE]

\* lines 183-184: 'Request not finished', nothing else is done
not_finished(fs, rq, nc_file, s) ==
    [files |-> fs, requests |-> Put(rq, pickle_of(nc_file), ClassOf(s)),
     calls |-> <<"update">>, ret |-> FALSE]

\* lines 183-184: the request is still queued, accepted or running
StepPending ==
    LET nc == nc_file_of(Task) IN
    /\ InLoop
    /\ bounds_defined(DOMAIN settings.geo)
    /\ has_request(files, pickle_of(nc))
    /\ loads(requests, pickle_of(nc))
    /\ \E s \in Reach(requests[pickle_of(nc)]) \cap PendingStates :
          LET r == not_finished(open_logs(files, nc), requests, nc, s) IN
          /\ requests' = r.requests
          /\ files' = r.files
          /\ log' = Append(log, Entry(nc, TRUE, s, r.calls, "none",
                                      IF r.ret THEN "True" ELSE "False"))
          /\ Returns(r.ret)
    /\ Frame
    /\ UNCHANGED deleted

\* lines 177-179: patch_netcdf runs for the netcdf format when asked for
patch_wanted == settings.patch_netcdf /\ settings.format = "netcdf"

\* lines 168-181: completed, download, delete the pickle, patch, finished = True
StepDownload ==
    LET nc  == nc_file_of(Task)
        fs1 == (open_logs(files, nc) \cup {nc}) \ {pickle_of(nc)}
        p   == IF patch_wanted THEN patch_netcdf(fs1, nc)
               ELSE [files |-> fs1, ok |-> TRUE]
    IN
    /\ InLoop
    /\ bounds_defined(DOMAIN settings.geo)
    /\ has_request(files, pickle_of(nc))
    /\ loads(requests, pickle_of(nc))
    /\ "completed" \in Reach(requests[pickle_of(nc)])
    /\ files' = p.files
    /\ requests' = Drop(requests, pickle_of(nc))
    /\ log' = Append(log, Entry(nc, TRUE, "completed", <<"update", "download">>,
                                IF p.ok THEN "none" ELSE "PatchError",
                                IF p.ok THEN "True" ELSE "exit"))
    /\ IF p.ok THEN Returns(TRUE) ELSE Exits
    /\ Frame
    /\ UNCHANGED deleted

\* line 171: download() raises, with or without a partly written file left
StepDownloadRaises ==
    LET nc == nc_file_of(Task) IN
    /\ InLoop
    /\ bounds_defined(DOMAIN settings.geo)
    /\ has_request(files, pickle_of(nc))
    /\ loads(requests, pickle_of(nc))
    /\ "completed" \in Reach(requests[pickle_of(nc)])
    /\ \E partial \in BOOLEAN :
          files' = open_logs(files, nc) \cup (IF partial THEN {nc} ELSE {})
    /\ requests' = Put(requests, pickle_of(nc), "completed")
    /\ log' = Append(log, Entry(nc, TRUE, "completed", <<"update", "download">>,
                                "DownloadError", "raise"))
    /\ Raises
    /\ Frame
    /\ UNCHANGED deleted

delete_rejected_always(st) == TRUE

\* line 197: if settings['delete_rejected_requests']
delete_rejected(st) == st.delete_rejected_requests

\* lines 189-202: any other state; the request files are deleted when asked for
StepRejected ==
    LET nc == nc_file_of(Task)
        fs == open_logs(files, nc)
        r  == IF delete_rejected(settings) THEN remove_rejected(fs, nc)
              ELSE [files |-> fs, ok |-> TRUE]
    IN
    /\ InLoop
    /\ bounds_defined(DOMAIN settings.geo)
    /\ has_request(files, pickle_of(nc))
    /\ loads(requests, pickle_of(nc))
    /\ \E s \in Reach(requests[pickle_of(nc)]) \cap FailedStates :
          /\ requests' = IF delete_rejected(settings)
                         THEN Drop(requests, pickle_of(nc))
                         ELSE Put(requests, pickle_of(nc), ClassOf(s))
          /\ log' = Append(log, Entry(nc, TRUE, s, <<"update">>,
                                      IF r.ok THEN "none" ELSE "FileNotFoundError",
                                      IF r.ok THEN "False" ELSE "raise"))
    /\ files' = r.files
    /\ IF r.ok THEN Returns(FALSE) ELSE Raises
    /\ Frame
    /\ UNCHANGED deleted

-----------------------------------------------------------------------------
(* download_era5                                                           *)

while_not_finished_forever(fin) == TRUE

\* line 422: while not finished
while_not_finished(fin) == ~fin

needs_download_unless_deleted(fs, era_file) ==
    era_file \notin fs /\ era_file \notin deleted

needs_download_always(fs, era_file) == TRUE

\* lines 371-376: os.path.isfile(era_file) keeps the chunk out of the queue
needs_download(fs, era_file) == era_file \notin fs

\* lines 358-376: the queue entries of one kind
prep_dl(chunk_size, ftype, an_dates, fs) ==
    LET chunked_dates == chunk_dates(an_dates, chunk_size)
        wanted(dates) ==
            /\ ftype \notin settings.blacklist_download
            /\ needs_download(fs, era5_file_path(dates, ftype,
                                  format_extension(settings.format)).file)
        tasks == [i \in 1..Len(chunked_dates) |->
                     [chunk_dates |-> chunked_dates[i], ftype |-> ftype]]
    IN  SelectSeq(tasks, LAMBDA t : wanted(t.chunk_dates))

\* lines 338-343
an_dates_of(st) ==
    get_required_analysis(lower_to_hour(st.start_date), lower_to_hour(st.end_date),
                          freq_default)

\* every (kind, chunk) pair of the run that is not excluded, in queue order
required_tasks(st) ==
    LET all(size, ftype) ==
            LET c == chunk_dates(an_dates_of(st), size) IN
            IF ftype \in st.blacklist_download THEN <<>>
            ELSE [i \in 1..Len(c) |-> [chunk_dates |-> c[i], ftype |-> ftype]]
    IN  all(st.chunk_size_sl, "surface_an") \o all(st.chunk_size_pl, "pressure_an")
          \o all(st.chunk_size_cams, "cams")

\* lines 322-383: the queue is built and the loop variables are set
StartPass ==
    LET an_dates == an_dates_of(settings)
        queue == prep_dl(settings.chunk_size_sl, "surface_an", an_dates, files)
                   \o prep_dl(settings.chunk_size_pl, "pressure_an", an_dates, files)
                   \o prep_dl(settings.chunk_size_cams, "cams", an_dates, files)
        req   == required_tasks(settings)
    IN
    /\ pc = "main"
    /\ while_not_finished(m_finished)
    /\ download_queue' = queue
    /\ found' = {nc_file_of(req[i]) : i \in 1..Len(req)} \cap files
    /\ idx' = 1
    /\ finished' = TRUE
    /\ any_dl' = FALSE
    /\ log' = <<>>
    /\ pc' = "pass"
    /\ UNCHANGED <<settings, exit_when_waiting, files, requests,
                   m_finished, sleeptime, deleted, cdvars, anvars>>

\* lines 390-401: not finished and exit_when_waiting, sys.exit(0)
PassExits ==
    /\ pc = "pass"
    /\ idx > Len(download_queue)
    /\ ~finished /\ exit_when_waiting
    /\ pc' = "exited"
    /\ UNCHANGED <<settings, exit_when_waiting, files, requests, download_queue, idx,
                   finished, any_dl, found, log, m_finished, sleeptime, deleted,
                   cdvars, anvars>>

-----------------------------------------------------------------------------
(* __main__                                                                *)

\* line 418
sleeptime_increments == <<10, 60, 300, 1800>>

next_sleeptime_escalating(dl, t) ==
    IF dl THEN sleeptime_init
    ELSE IF t < sleeptime_increments[2] THEN sleeptime_increments[2] ELSE t

\* lines 448-464: sleeptime = sleeptime_init after a download, otherwise as it
\* was (the lines that would raise it are commented out)
next_sleeptime(dl, t) == IF dl THEN sleeptime_init ELSE t

\* line 404 and lines 444-466: the pass returns and the loop decides to sleep
PassReturns ==
    /\ pc = "pass"
    /\ idx > Len(download_queue)
    /\ ~(~finished /\ exit_when_waiting)
    /\ m_finished' = finished
    /\ IF ~finished
       THEN /\ sleeptime' = next_sleeptime(any_dl, sleeptime)
            /\ pc' = "sleep"
       ELSE /\ UNCHANGED sleeptime
            /\ pc' = "main"
    /\ UNCHANGED <<settings, exit_when_waiting, files, requests, download_queue, idx,
                   finished, any_dl, found, log, deleted, cdvars, anvars>>

\* line 467: time.sleep(sleeptime)
Sleep ==
    /\ pc = "sleep"
    /\ pc' = "main"
    /\ UNCHANGED <<settings, exit_when_waiting, files, requests, download_queue, idx,
                   finished, any_dl, found, log, m_finished, sleeptime,
                   deleted, cdvars, anvars>>

\* lines 422, 469-471: the loop ends
Finish ==
    /\ pc = "main"
    /\ ~while_not_finished(m_finished)
    /\ pc' = "done"
    /\ UNCHANGED <<settings, exit_when_waiting, files, requests, download_queue, idx,
                   finished, any_dl, found, log, m_finished, sleeptime, deleted,
                   cdvars, anvars>>

\* line 467: time.sleep(sleeptime), and meanwhile the content of a handle file
\* is damaged; the file is still there (line 145) and can no longer be
\* unpickled (line 149).
HandleDamaged ==
    /\ pc = "sleep"
    /\ pc' = "main"
    /\ \E p \in DOMAIN requests :
          /\ requests[p] # "unreadable"
          /\ requests' = Put(requests, p, "unreadable")
    /\ UNCHANGED <<settings, exit_when_waiting, files, download_queue, idx,
                   finished, any_dl, found, log, m_finished, sleeptime, deleted,
                   cdvars, anvars>>

\* lines 414-420: the script is started again on the files the last run left
Restart ==
    /\ pc \in {"exited", "crashed"}
    /\ pc' = "main"
    /\ m_finished' = FALSE
    /\ sleeptime' = sleeptime_init
    /\ download_queue' = <<>>
    /\ idx' = 1
    /\ finished' = FALSE
    /\ any_dl' = FALSE
    /\ found' = {}
    /\ log' = <<>>
    /\ deleted' = {}
    /\ UNCHANGED <<settings, exit_when_waiting, files, requests, cdvars, anvars>>

-----------------------------------------------------------------------------
(* Runs                                                                    *)

StartDates == {DateTime(2010, 1, 1, 0, 0), DateTime(2010, 1, 31, 6, 30)}

\* periods of 1..MaxDays days
EndDates(start) ==
    {LET d == AddDays(Date(start.year, start.month, start.day), k)
     IN  DateTime(d.year, d.month, d.day, 23, 0) : k \in 0..(MaxDays - 1)}

\* lines 429-430: the box of the script's own settings
ScriptBox == [lat_n |-> 60, lat_s |-> 0 - 60, lon_w |-> 0 - 180, lon_e |-> 180]

\* the geographic entries of the settings: the script's box, a centre point with
\* a size, both together, and a set that is neither a whole box nor a whole centre
GeoSettings ==
    {ScriptBox}
    \cup {[central_lat |-> la, central_lon |-> 5, area_size |-> sz] :
             la \in {0 - 10, 52}, sz \in {1, 2}}
    \cup {[lat_n |-> 60, lat_s |-> 0 - 60, lon_w |-> 0 - 180, lon_e |-> 180,
            central_lat |-> 52, central_lon |-> 5, area_size |-> 2]}
    \cup {[lat_n |-> 60, lat_s |-> 0 - 60, central_lat |-> 52, central_lon |-> 5]}

Blacklists == {{}, {"surface_an"}, {"surface_an", "pressure_an"}, Kinds}

DayOfTime(t) == Date(t.year, t.month, t.day)

\* the flags of the script's own settings dictionary (lines 433-439)
ScriptFlags(st) ==
    st.write_log /\ st.delete_expired_requests /\ st.delete_rejected_requests

\* the format options of the script's own settings dictionary (lines 440-441)
ScriptFormat(st) == st.format = "grib" /\ ~st.patch_netcdf

\* One kind (cams) is run over periods of several days, several kinds over a
\* single day. Every combination of the flags and formats is run on one chunk
\* and on two chunks (two kinds, or two days in different months); the runs of
\* all three kinds, and those of one chunk a day, take the script's own flags,
\* and bounds other than the script's box are run with the script's own flags
\* and format for cams alone.
Configs ==
    {st \in [start_date : StartDates,
             end_date : UNION {EndDates(sd) : sd \in StartDates},
             geo : GeoSettings,
             write_log : BOOLEAN,
             delete_expired_requests : BOOLEAN,
             delete_rejected_requests : BOOLEAN,
             format : {"netcdf", "grib"},
             patch_netcdf : BOOLEAN,
             chunk_size_sl : {ScriptChunkSize},
             chunk_size_pl : {ScriptChunkSize},
             chunk_size_cams : {1, ScriptChunkSize},
             blacklist_download : Blacklists] :
        /\ st.end_date \in EndDates(st.start_date)
        /\ \/ /\ st.blacklist_download = {"surface_an", "pressure_an"}
              /\ st.chunk_size_cams = 1
                    => (st.start_date = DateTime(2010, 1, 1, 0, 0) /\ ScriptFlags(st))
              /\ DayOfTime(st.end_date) # DayOfTime(st.start_date) => ScriptFormat(st)
           \/ /\ st.start_date = DateTime(2010, 1, 1, 0, 0)
              /\ st.end_date = DateTime(2010, 1, 1, 23, 0)
              /\ st.chunk_size_cams = ScriptChunkSize
              /\ st.blacklist_download = {} => (ScriptFlags(st) /\ ScriptFormat(st))
        /\ \/ st.geo = ScriptBox
           \/ /\ ScriptFlags(st) /\ ScriptFormat(st)
              /\ st.blacklist_download = {"surface_an", "pressure_an"}}

IdleCd ==
    /\ cd_dates = <<>>
    /\ cd_size = 1
    /\ cd_out = <<>>
    /\ cd_done = FALSE

IdleAn ==
    /\ an_start = DateTime(2010, 1, 1, 0, 0)
    /\ an_end = DateTime(2010, 1, 1, 0, 0)
    /\ an_freq = freq_default
    /\ an_round = FALSE
    /\ an_out = <<>>
    /\ an_done = FALSE

Init ==
    /\ settings \in Configs
    /\ exit_when_waiting \in BOOLEAN
    /\ files = {}
    /\ requests = <<>>
    /\ pc = "main"
    /\ download_queue = <<>>
    /\ idx = 1
    /\ finished = FALSE
    /\ any_dl = FALSE
    /\ found = {}
    /\ log = <<>>
    /\ m_finished = FALSE
    /\ sleeptime = sleeptime_init
    /\ deleted = {}
    /\ IdleCd
    /\ IdleAn

Next ==
    \/ StartPass
    \/ StepConfigError
    \/ StepSubmit
    \/ StepLoadRaises
    \/ StepUpdateRaises
    \/ StepExpiredDeleted
    \/ StepExpiredExit
    \/ StepPending
    \/ StepDownload
    \/ StepDownloadRaises
    \/ StepRejected
    \/ PassExits
    \/ PassReturns
    \/ Sleep
    \/ Finish
    \/ HandleDamaged
    \/ Restart

Spec == Init /\ [][Next]_vars

\* The script's own run (line 444: exit_when_waiting=False) with bounds given,
\* in which no refresh, download or handle file fails and no request is
\* rejected or expires: the steps left are submit, still pending, download.
LiveInit ==
    /\ Init
    /\ ~exit_when_waiting
    /\ bounds_defined(DOMAIN settings.geo)

LiveNext ==
    \/ StartPass
    \/ StepSubmit
    \/ StepPending
    \/ StepDownload
    \/ PassReturns
    \/ Sleep
    \/ Finish

\* The process keeps running (lines 382-388, 422-467 never block but in
\* time.sleep), and a request that is refreshed again and again is found
\* completed at one of the refreshes (line 168).
LiveSpec == LiveInit /\ [][LiveNext]_vars /\ WF_vars(LiveNext) /\ SF_vars(StepDownload)

-----------------------------------------------------------------------------
(* chunk_dates on its own: every gap-free daily sequence of at most MaxLen *)
(* days that starts within MaxLen days of one of these month ends.         *)

MonthEnds ==
    {Date(2010, 1, 31), Date(2010, 2, 28), Date(2010, 4, 30),
     Date(2011, 12, 31), Date(2012, 2, 29)}

DateRange(first, n) == [i \in 1..n |-> AddDays(first, i - 1)]

HarnessDates ==
    {DateRange(AddDays(e, 0 - k), n) : e \in MonthEnds, k \in (0 - 1)..MaxLen, n \in 0..MaxLen}

HarnessSizes == (1..MaxSize) \cup {ScriptChunkSize}

\* a settings dictionary for the states in which download_era5 is not running
ScriptSettings ==
    [start_date |-> DateTime(2010, 1, 1, 0, 0), end_date |-> DateTime(2010, 1, 1, 23, 0),
     geo |-> ScriptBox, write_log |-> TRUE, delete_expired_requests |-> TRUE,
     delete_rejected_requests |-> TRUE, format |-> "grib", patch_netcdf |-> FALSE,
     chunk_size_sl |-> ScriptChunkSize, chunk_size_pl |-> ScriptChunkSize,
     chunk_size_cams |-> ScriptChunkSize, blacklist_download |-> {}]

ChunkInit ==
    /\ settings = ScriptSettings
    /\ exit_when_waiting = FALSE
    /\ files = {}
    /\ requests = <<>>
    /\ pc = "off"
    /\ download_queue = <<>>
    /\ idx = 1
    /\ finished = FALSE
    /\ any_dl = FALSE
    /\ found = {}
    /\ log = <<>>
    /\ m_finished = FALSE
    /\ sleeptime = sleeptime_init
    /\ deleted = {}
    /\ cd_dates \in HarnessDates
    /\ cd_size \in HarnessSizes
    /\ cd_out = <<>>
    /\ cd_done = FALSE
    /\ IdleAn

ChunkCall ==
    /\ pc = "off"
    /\ ~cd_done
    /\ cd_out' = chunk_dates(cd_dates, cd_size)
    /\ cd_done' = TRUE
    /\ UNCHANGED <<cd_dates, cd_size, mainvars, anvars>>

ChunkNext == ChunkCall

ChunkSpec == ChunkInit /\ [][ChunkNext]_vars

-----------------------------------------------------------------------------
(* get_required_analysis on its own, called on the times as they are and   *)
(* as download_era5 calls it, on times rounded by lower_to_hour; periods   *)
(* of at most MaxDays days that start on one of these days.                *)

AnalysisStartDays ==
    {Date(2010, 1, 1), Date(2010, 1, 31), Date(2011, 12, 31), Date(2012, 2, 28)}

AnalysisMinutes == {0, 30, 59}

AnalysisStarts ==
    {DateTime(d.year, d.month, d.day, h, mi) :
        d \in AnalysisStartDays, h \in {0, 6}, mi \in {0, 30}}

AnalysisEnds(start) ==
    {LET d == AddDays(Date(start.year, start.month, start.day), k)
     IN  DateTime(d.year, d.month, d.day, h, mi) :
        k \in 0..(MaxDays - 1), h \in 0..23, mi \in AnalysisMinutes}

OffMain ==
    /\ settings = ScriptSettings
    /\ exit_when_waiting = FALSE
    /\ files = {}
    /\ requests = <<>>
    /\ pc = "off"
    /\ download_queue = <<>>
    /\ idx = 1
    /\ finished = FALSE
    /\ any_dl = FALSE
    /\ found = {}
    /\ log = <<>>
    /\ m_finished = FALSE
    /\ sleeptime = sleeptime_init
    /\ deleted = {}

AnalysisInit ==
    /\ OffMain
    /\ IdleCd
    /\ an_start \in AnalysisStarts
    /\ an_end \in AnalysisEnds(an_start)
    /\ an_freq \in 1..MaxFreq
    /\ an_round = FALSE
    /\ an_out = <<>>
    /\ an_done = FALSE

\* get_required_analysis(start, end, freq)
AnalysisCall ==
    /\ pc = "off"
    /\ ~an_done
    /\ an_out' = get_required_analysis(an_start, an_end, an_freq)
    /\ an_round' = FALSE
    /\ an_done' = TRUE
    /\ UNCHANGED <<an_start, an_end, an_freq, mainvars, cdvars>>

\* download_era5 lines 338-343: lower_to_hour on both times, then the call
AnalysisCallRounded ==
    /\ pc = "off"
    /\ ~an_done
    /\ an_out' = get_required_analysis(lower_to_hour(an_start), lower_to_hour(an_end),
                                        an_freq)
    /\ an_round' = TRUE
    /\ an_done' = TRUE
    /\ UNCHANGED <<an_start, an_end, an_freq, mainvars, cdvars>>

AnalysisNext == AnalysisCall \/ AnalysisCallRounded

AnalysisSpec == AnalysisInit /\ [][AnalysisNext]_vars

-----------------------------------------------------------------------------
(* Claims                                                                  *)

RECURSIVE Flatten(_)
Flatten(ss) == IF ss = <<>> THEN <<>> ELSE Head(ss) \o Flatten(Tail(ss))

SpecExampleDates == DateRange(Date(2010, 1, 30), 4)

\* C10: chunk_dates of an ascending gap-free daily sequence with chunk_size >= 1
\* returns chunks that are non-empty, hold at most chunk_size dates, hold dates
\* of one (year, month) only, and concatenate to the input; Jan 30..Feb 2 with
\* chunk_size 8 gives [Jan30, Jan31], [Feb1, Feb2].
C10_ChunksPartitionByMonth ==
    cd_done =>
        /\ \A i \in 1..Len(cd_out) :
              /\ Len(cd_out[i]) >= 1
              /\ Len(cd_out[i]) <= cd_size
              /\ \A j, k \in 1..Len(cd_out[i]) :
                    /\ cd_out[i][j].year = cd_out[i][k].year
                    /\ cd_out[i][j].month = cd_out[i][k].month
        /\ Flatten(cd_out) = cd_dates
        /\ (cd_dates = SpecExampleDates /\ cd_size = ScriptChunkSize) =>
              cd_out = << <<Date(2010, 1, 30), Date(2010, 1, 31)>>,
                          <<Date(2010, 2, 1), Date(2010, 2, 2)>> >>

\* C10 witness: the call has returned for a sequence that crosses a month
\* boundary with a chunk size larger than the sequence.
C10_Witness ==
    /\ cd_done
    /\ Len(cd_dates) = 4
    /\ cd_dates[1].month # cd_dates[4].month
    /\ cd_size = ScriptChunkSize
    /\ Len(cd_out) = 2

-----------------------------------------------------------------------------
(* Claims about the lifecycle step, the orchestrator and the retry loop    *)

LastEntry == log[Len(log)]

\* this step is one call of _download_era5_file
StepTaken == pc = "pass" /\ Len(log') = Len(log) + 1

\* the entry the call of this step writes
NewEntry == log'[Len(log')]

RangeOf(seq) == {seq[i] : i \in 1..Len(seq)}

\* the download of entry e returned
DownloadSucceeded(e) == "download" \in RangeOf(e.calls) /\ e.error # "DownloadError"

\* C1: a call for a task with no handle file and valid bounds makes exactly one
\* remote call, the submission, leaves the handle file on disk, returns False to
\* the loop and does not download the output file.
C1_NoHandleSubmitsOnly ==
    [][(/\ StepTaken
        /\ pickle_of(nc_file_of(Task)) \notin files
        /\ bounds_defined(DOMAIN settings.geo))
       => /\ NewEntry.nc_file = nc_file_of(Task)
          /\ NewEntry.calls = <<"retrieve">>
          /\ pickle_of(nc_file_of(Task)) \in files'
          /\ pickle_of(nc_file_of(Task)) \in DOMAIN requests'
          /\ NewEntry.ret = "False"
          /\ pc' = "pass" /\ idx' = idx + 1 /\ ~finished' /\ any_dl' = any_dl
          /\ nc_file_of(Task) \notin files']_vars

\* C1 witness: the last call submitted a request for a task without a handle.
C1_Witness ==
    /\ pc = "pass"
    /\ log # <<>>
    /\ ~LastEntry.had_request
    /\ LastEntry.calls = <<"retrieve">>
    /\ pickle_of(LastEntry.nc_file) \in files

\* C2: after a call that found the request completed and whose download
\* returned, the handle file is gone, the output file exists and the call
\* returned True.
C2_CompletedDownloadFinishes ==
    (log # <<>> /\ LastEntry.state = "completed" /\ DownloadSucceeded(LastEntry))
    => /\ pickle_of(LastEntry.nc_file) \notin files
       /\ LastEntry.nc_file \in files
       /\ LastEntry.ret = "True"

\* the files that belong to an output file
FilesOf(nc_file) ==
    {nc_file, pickle_of(nc_file), out_of(nc_file), err_of(nc_file),
     with_ext(nc_file, ".nc.unpatched")}

\* C3: in a pass, no call is made for a (kind, chunk) pair whose output file
\* existed when the pass started, so no remote call is made for it, and no call
\* of the pass changes its files or its request.
C3_FoundLocalIsSkipped ==
    [][StepTaken
       => /\ NewEntry.nc_file \notin found
          /\ \A f \in found :
                /\ FilesOf(f) \cap files' = FilesOf(f) \cap files
                /\ (pickle_of(f) \in DOMAIN requests') = (pickle_of(f) \in DOMAIN requests)
                /\ pickle_of(f) \in DOMAIN requests
                      => requests'[pickle_of(f)] = requests[pickle_of(f)]]_vars

\* C3 witness: a call was made in a pass that skipped a pair found local.
C3_Witness == pc = "pass" /\ found # {} /\ log # <<>>

\* download_era5 has returned (finished, any_dl) to __main__
Returned == pc \in {"sleep", "done"} \/ (pc = "main" /\ m_finished)

\* queue entry i reached Downloaded in this pass
Downloaded(i) ==
    /\ i <= Len(log)
    /\ log[i].nc_file = nc_file_of(download_queue[i])
    /\ log[i].state = "completed"
    /\ DownloadSucceeded(log[i])
    /\ log[i].nc_file \in files

\* C4: when a pass returns, all_finished is true iff every queued task was
\* downloaded in the pass (so it is true for an empty queue), and
\* any_download_happened is true iff some queued task was downloaded in the pass.
C4_AggregateOfPass ==
    Returned
    => /\ finished = (\A i \in 1..Len(download_queue) : Downloaded(i))
       /\ any_dl = (\E i \in 1..Len(download_queue) : Downloaded(i))
       /\ m_finished = finished

\* C4 witness: a pass of two tasks returned with one downloaded and one not.
C4_Witness ==
    /\ Returned
    /\ Len(download_queue) >= 2
    /\ any_dl
    /\ ~finished

\* C5: a request is submitted for a chunk only by a call that finds no handle
\* file for it, and a handle file refers to one request.
C5_SubmitOnlyWithoutHandle ==
    [][(StepTaken /\ "retrieve" \in RangeOf(NewEntry.calls))
       => /\ pickle_of(NewEntry.nc_file) \notin files
          /\ pickle_of(NewEntry.nc_file) \in files'
          /\ NewEntry.calls = <<"retrieve">>]_vars

\* C5 witness: in one pass the request of a first chunk was refreshed and a
\* request was submitted for a later chunk, whose handle had been deleted.
C5_Witness ==
    /\ Len(log) >= 2
    /\ log[1].had_request
    /\ LastEntry.calls = <<"retrieve">>
    /\ pickle_of(LastEntry.nc_file) \in files

\* entry e saw a rejected request, or an expired one
RejectedOrExpired(e) == e.state \in FailedStates \/ e.error = "HTTPError"

\* C6: whatever write_log, delete_expired_requests and delete_rejected_requests
\* are, a call that finds its request rejected or expired returns to the loop,
\* so the chunks queued after it are run in the same pass.
C6_RejectedOrExpiredReturns ==
    \A i \in 1..Len(log) : RejectedOrExpired(log[i]) => log[i].ret = "False"

\* C7: when delete_rejected_requests is set and a pass is over in which every
\* call found its request rejected, every queued chunk had its call, the handle
\* and the .out and .err files of every queued chunk are gone, and the pass
\* reported finished = False and any_dl = False.
C7_AllRejectedAllDeleted ==
    (/\ settings.delete_rejected_requests
     /\ pc # "pass"
     /\ log # <<>>
     /\ \A i \in 1..Len(log) : log[i].state \in FailedStates)
    => /\ Len(log) = Len(download_queue)
       /\ \A i \in 1..Len(download_queue) :
             {pickle_of(nc_file_of(download_queue[i])),
              out_of(nc_file_of(download_queue[i])),
              err_of(nc_file_of(download_queue[i]))} \cap files = {}
       /\ pc # "crashed"
       /\ ~finished /\ ~any_dl

\* C8: a pass is started only while no pass has reported finished = True; after
\* a pass that reported False the loop sleeps and starts another pass; once a
\* pass reported True the loop ends and nothing more is submitted or changed.
C8_LoopUntilFinished ==
    [][/\ (pc' = "pass" /\ pc # "pass") => ~m_finished
       /\ pc = "sleep" => (~m_finished /\ pc' = "main")
       /\ (pc = "main" /\ ~m_finished) => pc' = "pass"
       /\ m_finished => (pc' = "done" /\ UNCHANGED <<files, requests, log>>)]_vars

\* C8 witness: the loop ended after more than one pass.
C8_Witness == pc = "done" /\ found # {} /\ log # <<>>

\* the exit code of the ended process: 0 after sys.exit() or sys.exit(0) and at
\* the end of the script, 1 after an uncaught exception
ExitCode == IF pc = "crashed" THEN 1 ELSE 0

\* C9: with exit_when_waiting and valid bounds, a process that ended in a pass
\* with unfinished tasks, no call of which met a network error, ended with exit
\* code 0 and after every queued task had its one call (the process goes from
\* the pass to its end, it never sleeps).
C9_SinglePassExit ==
    (/\ exit_when_waiting
     /\ bounds_defined(DOMAIN settings.geo)
     /\ pc \in {"exited", "crashed"}
     /\ \A i \in 1..Len(log) : log[i].error \notin {"ConnectionError", "DownloadError"})
    => /\ ExitCode = 0
       /\ Len(log) = Len(download_queue)
       /\ ~finished

-----------------------------------------------------------------------------
(* Claims about get_required_analysis                                      *)

DayOf(t) == Date(t.year, t.month, t.day)

ValidDate(d) == d.month \in 1..12 /\ d.day \in 1..DaysInMonth(d.year, d.month)

\* dates is the daily sequence of n days that starts on day first
DailyFrom(dates, first, n) ==
    /\ Len(dates) = n
    /\ \A i \in 1..n :
          /\ ValidDate(dates[i])
          /\ toordinal(dates[i]) = toordinal(first) + i - 1

C12_BoundaryHourRule ==
    (an_done /\ ~an_round /\ an_freq = 1)
    => /\ an_out # <<>>
       /\ toordinal(an_out[Len(an_out)]) =
             toordinal(DayOf(an_end))
               + (IF 60 * an_end.hour + an_end.minute > 60 * 23 THEN 1 ELSE 0)
       /\ (an_end.hour = 23 /\ an_end.minute = 0) => an_out[Len(an_out)] = DayOf(an_end)
       /\ (an_end.hour = 0 /\ an_end.minute # 0) => an_out[Len(an_out)] = DayOf(an_end)

\* C12 witness: a call with freq 1 and the end time 23:30 returned a
\* sequence one day longer than the period.
C12_Witness ==
    /\ an_done /\ ~an_round /\ an_freq = 1
    /\ an_end.hour = 23 /\ an_end.minute = 30
    /\ Len(an_out) = toordinal(DayOf(an_end)) - toordinal(DayOf(an_start)) + 2

-----------------------------------------------------------------------------
(* Claims about the states of a request                                    *)

PickleFiles(fs) == {f \in fs : f.ext = ".pickle"}

\* C13: a call works with the explicit box when lat_n, lat_s, lon_w and lon_e are
\* all in the settings; otherwise, when central_lat, central_lon and area_size
\* are, with north = central_lat + area_size, south = central_lat - area_size,
\* west = central_lon - area_size, east = central_lon + area_size; otherwise it
\* ends the run with the configuration error, having made no call to the remote
\* service and having written or deleted no handle file.
C13_BoundingBox ==
    [][StepTaken
       => LET g == settings.geo IN
          IF BoxKeys \subseteq DOMAIN g
          THEN /\ NewEntry.box = <<g.lat_n, g.lat_s, g.lon_w, g.lon_e>>
               /\ NewEntry.error # "ConfigError"
          ELSE IF CenterKeys \subseteq DOMAIN g
          THEN /\ NewEntry.box[1] = g.central_lat + g.area_size
               /\ NewEntry.box[2] = g.central_lat - g.area_size
               /\ NewEntry.box[3] = g.central_lon - g.area_size
               /\ NewEntry.box[4] = g.central_lon + g.area_size
               /\ NewEntry.error # "ConfigError"
          ELSE /\ NewEntry.error = "ConfigError"
               /\ NewEntry.box = <<>>
               /\ pc' = "exited"
               /\ NewEntry.calls = <<>>
               /\ requests' = requests
               /\ PickleFiles(files') = PickleFiles(files)]_vars

\* C13 witness: a call worked with the box 54, 50, 3, 7 derived from the centre
\* (52, 5) and the size 2.
C13_Witness ==
    /\ log # <<>>
    /\ DOMAIN settings.geo = CenterKeys
    /\ LastEntry.box = <<54, 50, 3, 7>>
    /\ LastEntry.calls # <<>>

\* C14: a call that finds a handle file and whose refresh shows the request
\* queued, accepted or running returns False, leaves the handle file, the output
\* file and the request at the remote service as they were, and makes exactly
\* one call to the remote service, the refresh.
C14_PendingStepPollsOnce ==
    [][(StepTaken /\ NewEntry.state \in PendingStates)
       => /\ NewEntry.nc_file = nc_file_of(Task)
          /\ NewEntry.ret = "False"
          /\ pc' = "pass" /\ idx' = idx + 1 /\ ~finished' /\ any_dl' = any_dl
          /\ pickle_of(NewEntry.nc_file) \in files
          /\ PickleFiles(files') = PickleFiles(files)
          /\ (NewEntry.nc_file \in files') = (NewEntry.nc_file \in files)
          /\ requests' = requests
          /\ NewEntry.calls = <<"update">>]_vars

\* C14 witness: the one call of a pass refreshed the request an earlier pass had
\* submitted and found it running; handle file and request are still there.
C14_Witness ==
    /\ pc = "pass"
    /\ found = {}
    /\ Len(log) = 1
    /\ LastEntry.state = "running"
    /\ LastEntry.had_request
    /\ sleeptime = sleeptime_init
    /\ pickle_of(LastEntry.nc_file) \in files
    /\ requests[pickle_of(LastEntry.nc_file)] = "pending"

\* C15: when the refresh of an existing handle fails with an HTTP error, then
\* with delete_expired_requests the handle file is deleted and the call returns
\* False, having neither downloaded nor submitted anything; without it the
\* handle file stays where it is; and as long as a chunk has a handle file no
\* call submits a request for it.
C15_ExpiredHandle ==
    [][StepTaken
       => /\ NewEntry.error = "HTTPError"
             => /\ NewEntry.had_request
                /\ pickle_of(NewEntry.nc_file) \in files
                /\ NewEntry.calls = <<"update">>
                /\ NewEntry.nc_file \notin files'
                /\ IF settings.delete_expired_requests
                   THEN /\ pickle_of(NewEntry.nc_file) \notin files'
                        /\ NewEntry.state = "deleted"
                        /\ NewEntry.ret = "False"
                        /\ pc' = "pass" /\ idx' = idx + 1
                        /\ ~finished' /\ any_dl' = any_dl
                   ELSE /\ pickle_of(NewEntry.nc_file) \in files'
                        /\ PickleFiles(files') = PickleFiles(files)
          /\ pickle_of(nc_file_of(Task)) \in files
             => "retrieve" \notin RangeOf(NewEntry.calls)]_vars

\* C15 witness: the refresh of the second of two queued requests failed with an
\* HTTP error and its handle file was deleted, the handle of the first is kept.
C15_Witness ==
    /\ pc = "pass"
    /\ Len(log) = 2
    /\ LastEntry.error = "HTTPError"
    /\ LastEntry.state = "deleted"
    /\ pickle_of(LastEntry.nc_file) \notin files
    /\ pickle_of(log[1].nc_file) \in files

\* C16 as stated: Deleted is terminal, no call of the run submits a request for a
\* chunk whose expired handle was deleted in the run.
C16_DeletedIsTerminal ==
    [][(StepTaken /\ nc_file_of(Task) \in deleted)
       => "retrieve" \notin RangeOf(NewEntry.calls)]_vars

\* C16: Deleted is not terminal. A chunk whose expired handle was deleted has
\* neither a handle file nor an output file, every pass started while it is in
\* that state queues it, and the call made for it submits a new request and
\* leaves its handle file, with which the chunk has left the state Deleted.
C16_DeletedIsResubmitted ==
    [][/\ \A nc \in deleted :
             /\ pickle_of(nc) \notin files
             /\ nc \notin files
             /\ pickle_of(nc) \notin DOMAIN requests
       /\ (pc = "main" /\ pc' = "pass")
             => \A nc \in deleted :
                   \E i \in 1..Len(download_queue') :
                      nc_file_of(download_queue'[i]) = nc
       /\ (StepTaken /\ nc_file_of(Task) \in deleted)
             => /\ NewEntry.nc_file = nc_file_of(Task)
                /\ NewEntry.calls = <<"retrieve">>
                /\ NewEntry.ret = "False"
                /\ pickle_of(nc_file_of(Task)) \in files'
                /\ pickle_of(nc_file_of(Task)) \in DOMAIN requests'
                /\ nc_file_of(Task) \notin deleted']_vars

\* C16 witness: the last call was made for a chunk in the state Deleted and
\* submitted a new request for it.
C16_Witness ==
    /\ pc = "pass"
    /\ log # <<>>
    /\ LastEntry.before = "deleted"
    /\ LastEntry.calls = <<"retrieve">>
    /\ pickle_of(LastEntry.nc_file) \in files
    /\ LastEntry.nc_file \notin deleted

\* the request of handle file p was last seen rejected and its handle was kept
Rejected(p) == p \in DOMAIN requests /\ requests[p] = "failed"

\* the same after the step
RejectedNext(p) == p \in DOMAIN requests' /\ requests'[p] = "failed"

\* C17 as stated: once a request was found rejected and its handle file kept,
\* the chunk stays Rejected: no step of the program removes the handle file (it
\* stays until somebody removes it by hand), and every later call for the chunk
\* that gets an answer to its refresh finds the request rejected and returns
\* False.
C17_RejectedStaysRejected ==
    [][\A p \in DOMAIN requests :
          Rejected(p)
          => /\ p \in files'
             /\ (StepTaken /\ pickle_of(nc_file_of(Task)) = p /\ NewEntry.error = "none")
                   => (NewEntry.state \in FailedStates /\ NewEntry.ret = "False")]_vars

\* C17: without delete_rejected_requests a call that finds its request rejected
\* returns False and leaves the handle file; every later pass queues the chunk
\* again, no call submits a request for it while the handle file is there, and
\* every later call whose refresh succeeds finds the request rejected again,
\* returns False and leaves the handle file.
C17_RejectedKeptWhileRefreshed ==
    [][/\ (StepTaken /\ NewEntry.state \in FailedStates
              /\ ~settings.delete_rejected_requests)
             => /\ NewEntry.ret = "False"
                /\ pc' = "pass" /\ idx' = idx + 1 /\ ~finished' /\ any_dl' = any_dl
                /\ NewEntry.calls = <<"update">>
                /\ PickleFiles(files') = PickleFiles(files)
                /\ RejectedNext(pickle_of(NewEntry.nc_file))
       /\ \A p \in DOMAIN requests :
             Rejected(p)
             => /\ p \in files
                /\ ~settings.delete_rejected_requests
                /\ (pc = "main" /\ pc' = "pass")
                      => \E i \in 1..Len(download_queue') :
                            pickle_of(nc_file_of(download_queue'[i])) = p
                /\ (StepTaken /\ pickle_of(nc_file_of(Task)) = p)
                      => /\ "retrieve" \notin RangeOf(NewEntry.calls)
                         /\ NewEntry.error = "none"
                               => /\ NewEntry.state \in FailedStates
                                  /\ NewEntry.ret = "False"
                                  /\ p \in files'
                                  /\ RejectedNext(p)]_vars

\* C17 witness: a call refreshed a request that an earlier call had found
\* rejected, found it rejected again and left the handle file.
C17_Witness ==
    /\ pc = "pass"
    /\ log # <<>>
    /\ LastEntry.before = "failed"
    /\ LastEntry.state \in FailedStates
    /\ LastEntry.ret = "False"
    /\ pickle_of(LastEntry.nc_file) \in files

\* entry e met a network error in its refresh or its download
NetworkError(e) == e.error \in {"ConnectionError", "DownloadError"}

\* C18: a call whose refresh or download meets a network error (other than the
\* HTTP error that means expired) gives up its chunk only: the handle file is
\* kept and the call returns to the loop as not finished, so the chunks queued
\* after it are run in the same pass and the loop goes on to the next pass.
C18_NetworkErrorAbortsChunkOnly ==
    \A i \in 1..Len(log) :
       NetworkError(log[i])
       => /\ pickle_of(log[i].nc_file) \in files
          /\ log[i].ret = "False"
          /\ pc # "crashed"

\* C19 as stated: a call that finds a handle file it cannot unpickle goes on as
\* for a request the remote service rejected: it returns False, and with
\* delete_rejected_requests the handle file is deleted.
C19_CorruptHandleAsRejected ==
    \A i \in 1..Len(log) :
       log[i].before = "unreadable"
       => /\ log[i].ret = "False"
          /\ settings.delete_rejected_requests
                => pickle_of(log[i].nc_file) \notin files

\* C19: a call that finds a handle file it cannot unpickle ends in the
\* exception of pickle.load, which nothing catches: it makes no call to the
\* remote service and deletes nothing, whatever delete_rejected_requests is, the
\* handle file stays, and the run ends with the chunks queued after it not run.
C19_CorruptHandleRaises ==
    [][(StepTaken /\ state_before(nc_file_of(Task)) = "unreadable")
       => /\ NewEntry.nc_file = nc_file_of(Task)
          /\ NewEntry.error = "UnpicklingError"
          /\ NewEntry.ret = "raise"
          /\ NewEntry.calls = <<>>
          /\ files \subseteq files'
          /\ PickleFiles(files') = PickleFiles(files)
          /\ requests' = requests
          /\ pc' = "crashed"
          /\ idx' = idx]_vars

\* C19 witness: with delete_rejected_requests the run ended in a call that
\* could not unpickle its handle file; the file is still there.
C19_Witness ==
    /\ pc = "crashed"
    /\ log # <<>>
    /\ settings.delete_rejected_requests
    /\ LastEntry.before = "unreadable"
    /\ LastEntry.error = "UnpicklingError"
    /\ pickle_of(LastEntry.nc_file) \in files

-----------------------------------------------------------------------------
(* Claims about the retry loop                                             *)

\* C20: a pass that returns unfinished is followed by a sleep before the next
\* pass; after an unfinished pass with a download the sleep time is set to its
\* initial value; the lines that raise it being commented out, every sleep
\* lasts the initial value; and the loop starts a pass only at its first turn
\* or after a sleep.
C20_FixedDelayRetry ==
    [][/\ (pc = "pass" /\ pc' \in {"main", "sleep", "done"})
             => /\ (~finished) = (pc' = "sleep")
                /\ (~finished /\ any_dl) => sleeptime' = sleeptime_init
                /\ (~finished /\ ~any_dl) => sleeptime' = sleeptime
       /\ pc = "sleep" => (sleeptime = sleeptime_init /\ pc' = "main")
       /\ pc' = "sleep" => sleeptime' = sleeptime_init]_vars

\* C20 witness: the loop sleeps the initial time after an unfinished pass in
\* which a download completed.
C20_Witness ==
    /\ pc = "sleep"
    /\ ~finished /\ any_dl
    /\ Len(log) >= 2
    /\ sleeptime = sleeptime_init

-----------------------------------------------------------------------------
(* Claims about the files of a run                                         *)

\* the output files of the (kind, chunk) pairs of the run that are not excluded
RequiredFiles ==
    {nc_file_of(required_tasks(settings)[i]) : i \in 1..Len(required_tasks(settings))}

\* C21: when the loop of the script has ended because a pass reported
\* finished = True, the output file of every (kind, chunk) pair of every kind
\* that is not excluded is on disk.
C21_FinishedMeansAllFiles ==
    (pc = "done" \/ (pc = "main" /\ m_finished)) => RequiredFiles \subseteq files

\* C21 witness: the loop has ended after a pass that downloaded the last of
\* several output files, the others having been found on disk.
C21_Witness ==
    /\ pc = "done"
    /\ Cardinality(RequiredFiles) >= 2
    /\ found # {}
    /\ log # <<>>
    /\ LastEntry.ret = "True"

\* C22: starting without files, after every call and every pass no chunk has
\* both its output file and its handle file on disk, also when a download
\* fails or the process ends in the middle of a call.
C22_HandleOnlyWithoutOutput ==
    \A nc \in RequiredFiles : ~(nc \in files /\ pickle_of(nc) \in files)

-----------------------------------------------------------------------------
(* Claims about the end of the loop                                        *)

\* C23: when the process keeps running, every submitted request is found
\* completed at some refresh (none is rejected, none expires) and every
\* download succeeds, the loop of the script reaches a pass that reports
\* finished = True and ends. A run that has ended in any other way no longer
\* reaches such a pass, so in these runs the process is never found ended
\* without the loop having ended on finished = True.
C23_EndsOnlyAllFinished ==
    pc \in {"done", "exited", "crashed"} => (pc = "done" /\ m_finished)

-----------------------------------------------------------------------------
(* Claims about the paths of a run                                         *)

\* the handle file of f is there and holds the same request before and after
HandleUntouched(f) ==
    /\ (pickle_of(f) \in files') = (pickle_of(f) \in files)
    /\ (pickle_of(f) \in DOMAIN requests') = (pickle_of(f) \in DOMAIN requests)
    /\ pickle_of(f) \in DOMAIN requests
          => requests'[pickle_of(f)] = requests[pickle_of(f)]

\* C24: in one run, two different (kind, chunk) pairs have different output
\* paths and, the handle path being the output path with its extension
\* replaced, different handle files, none of which is an output path; and a
\* call for one pair leaves the handle file of every other pair as it was:
\* there or not, and with the same request in it. The settings of a run do not
\* change, so the paths are compared where each pass starts.
C24_HandleOwnedByOneTask ==
    [][LET req == required_tasks(settings) IN
       /\ pc = "main" =>
             \A i, j \in 1..Len(req) :
                /\ i # j =>
                      /\ nc_file_of(req[i]) # nc_file_of(req[j])
                      /\ pickle_of(nc_file_of(req[i])) # pickle_of(nc_file_of(req[j]))
                /\ pickle_of(nc_file_of(req[i])) # nc_file_of(req[j])
       /\ StepTaken =>
             /\ NewEntry.nc_file = nc_file_of(Task)
             /\ NewEntry.had_request = (pickle_of(nc_file_of(Task)) \in files)
             /\ \A f \in RequiredFiles \ {nc_file_of(Task)} : HandleUntouched(f)]_vars

\* a call has just been made while two chunks of one kind have a handle file
C24_Witness ==
    /\ pc = "pass" /\ log # <<>>
    /\ \E f, g \in RequiredFiles :
          /\ f.name = g.name /\ f.dir # g.dir
          /\ LastEntry.nc_file = g
          /\ pickle_of(f) \in files /\ pickle_of(g) \in files
          /\ pickle_of(f) \in DOMAIN requests /\ pickle_of(g) \in DOMAIN requests

====
